---- MODULE Spec2Model ----
(***************************************************************************)
(* State-machine model of the admissions questionnaire:                    *)
(*   - App (src/App.tsx 487-602): step, studentInfo, analysisReport,       *)
(*     location, error, and the handlers that move between them;           *)
(*   - Onboarding (src/App.tsx 41-290): the four-step form, its            *)
(*     completion predicate and the image-upload / extraction sub-flow;    *)
(*   - the gateway (src/services/geminiService.ts): extractDataFromImage,  *)
(*     getAnalysisPrompt and analyzeStudentData, with the external model   *)
(*     as a nondeterministic source of responses.                          *)
(* Promises in flight are part of the state: a handler that awaits is      *)
(* split at each await, and the part after the await is its own action.    *)
(***************************************************************************)
EXTENDS Integers, Sequences, FiniteSets, TLC

\* ------------------------------------------------------------------ bounds
\* Promises of unmounted Onboarding instances / earlier sessions that may
\* still be in flight (reset is refused in the model beyond this).
MaxStale == 1
\* getCurrentPosition calls whose callback has not run yet.
MaxGeoPending == 1

\* ----------------------------------------------------------------- values
\* null and undefined of an object-typed slot.
Null == [null |-> TRUE]
Undefined == [undefined |-> TRUE]

\* The strings typed into text inputs: empty, whitespace only, and text.
Str == {"", " ", "a"}
\* String.prototype.trim on those strings.
trim(s) == IF s = " " THEN "" ELSE s

\* The <option> values of the grade <select>.
GradesAll == {"", "1", "2", "3"}

ManualFields ==
  {"awards", "creativeActivities", "detailedAbilities", "readingActivities",
   "behavioralCharacteristics"}

ExamFields == {"korean", "math", "english", "inquiry1", "inquiry2"}

\* useState<StudentInfo>(...) of Onboarding.
InitialInfo ==
  [grade |-> "", desiredField |-> "", studentName |-> "",
   academicRecordImage |-> Undefined,
   manualAcademicRecord |-> Undefined,
   mockExam |-> [f \in ExamFields |-> ""]]

\* The record handleManualSelect installs.
EmptyManualRecord == [f \in ManualFields |-> ""]

\* What fileToBase64 resolves to for the selected file.
ImagePayload == [mimeType |-> "image/png", data |-> "QUJD"]
PreviewUrl == "blob:preview"

\* A position the browser reports.
Position == [latitude |-> 37, longitude |-> 127]

\* alert() texts.
NoAlert == "none"
ExtractFailedMessage ==
  "Failed to extract data from the image. Please try again or enter the data manually."
AnalysisFailedMessage ==
  "Failed to get analysis from AI. Please check the console for details."
LocationOkNotice == "location collected"
LocationFailedNotice == "location failed"
LocationUnsupportedNotice == "location unsupported"

VARIABLES
  appStep,          \* App: step
  studentInfo,      \* App: studentInfo
  analysisReport,   \* App: analysisReport
  location,         \* App: location
  error,            \* App: error (Null or [message |-> ...])
  obStep,           \* Onboarding: step
  info,             \* Onboarding: info
  recordInputType,  \* Onboarding: recordInputType ("null", "image", "manual")
  imagePreview,     \* Onboarding: imagePreview ("null" or an object URL)
  isExtracting,     \* Onboarding: isExtracting
  fileTask,         \* where the mounted instance's handleFileChange stands
  extractCall,      \* the extraction request of the mounted instance still unanswered
  analysisCall,     \* the analysis request of this session still unanswered
  staleReads,       \* fileToBase64 promises of unmounted instances
  staleExtracts,    \* extraction requests of unmounted instances
  staleAnalyses,    \* analysis requests issued before the last reset
  geoSupported,     \* navigator.geolocation is present
  geoPending,       \* getCurrentPosition calls of this session, unanswered
  geoStale,         \* getCurrentPosition calls from before the last reset
  alert             \* text of the last alert() shown

appVars == <<appStep, studentInfo, analysisReport, location, error>>
obVars ==
  <<obStep, info, recordInputType, imagePreview, isExtracting, fileTask,
    extractCall>>
flightVars == <<analysisCall, staleReads, staleExtracts, staleAnalyses>>
geoVars == <<geoSupported, geoPending, geoStale>>
vars == <<appVars, obVars, flightVars, geoVars, alert>>

\* ------------------------------------------------- Onboarding: pure parts

\* Plausible slips of isStepComplete, used to show which claims rest on it:
\* comparing without trim, and requiring every record field.
isStepCompleteNoTrim(s, i) ==
  CASE s = 1 -> i.grade # "" /\ i.desiredField # ""
    [] s = 2 -> /\ i.manualAcademicRecord # Undefined
                /\ \E f \in DOMAIN i.manualAcademicRecord :
                     i.manualAcademicRecord[f] # ""
    [] s = 3 -> \A f \in DOMAIN i.mockExam : i.mockExam[f] # ""
    [] OTHER -> FALSE

\* isStepComplete (App.tsx 106-132), for step s and form content i.
isStepComplete(s, i) ==
  CASE s = 1 -> i.grade # "" /\ trim(i.desiredField) # ""
    [] s = 2 -> LET record == i.manualAcademicRecord IN
                IF record = Undefined
                  THEN FALSE
                  ELSE \E f \in DOMAIN record : trim(record[f]) # ""
    [] s = 3 -> LET scores == i.mockExam IN
                \A f \in DOMAIN scores : trim(scores[f]) # ""
    [] OTHER -> FALSE

\* ------------------------------------------------------------ the gateway

\* What the external model can send back: the call throws, or it returns a
\* text.  A text is a body, possibly wrapped in a ```json fence; the body is
\* a JSON document or something JSON.parse rejects.
NotJson == [notJson |-> TRUE]
Thrown == [kind |-> "throw"]
Text(fence, body) == [kind |-> "text", fence |-> fence, body |-> body]

\* JSON.parse of a text: a fenced text or a non-JSON body is a SyntaxError.
JSONParse(text) ==
  IF text.fence \/ text.body = NotJson
    THEN [ok |-> FALSE]
    ELSE [ok |-> TRUE, value |-> text.body]

\* response.text.replace(/^```json\n/, '').replace(/\n```$/, '').trim()
StripFence(text) == [text EXCEPT !.fence = FALSE]

\* --- extraction

\* The instruction text of the extraction request (geminiService.ts 10-23).
ExtractionPrompt ==
  "You are an expert OCR system. Extract the student's name and the key sections of the academic record as a single JSON object."

\* What extractDataFromImage sends (geminiService.ts 25-37): the image part,
\* then the text part.
extractionContents(academicRecordImage) ==
  [parts |-> <<[inlineData |-> academicRecordImage],
               [text |-> ExtractionPrompt]>>]
ExtractDoc(name, record) ==
  [f \in ManualFields \cup {"studentName"} |->
     IF f = "studentName" THEN name ELSE record[f]]

\* The extraction documents the model is taken to answer with.
ExtractDocs ==
  { ExtractDoc("Kim", [f \in ManualFields |-> "a"]),
    ExtractDoc("OOO", [f \in ManualFields |-> ""]),
    ExtractDoc("Lee", [f \in ManualFields |-> IF f = "awards" THEN " " ELSE ""]),
    ExtractDoc("Kim", [f \in ManualFields |-> IF f = "awards" THEN "a" ELSE ""]) }

ExtractResponses ==
  {Thrown} \cup {Text(FALSE, NotJson)}
           \cup {Text(fence, d) : fence \in BOOLEAN, d \in ExtractDocs}

\* Slips of extractDataFromImage: the name is left out of the result; a
\* failure is swallowed into an empty result.
extractDataFromImageNoName(r) ==
  IF r.kind = "throw"
    THEN [ok |-> FALSE, message |-> ExtractFailedMessage]
    ELSE LET parsedJson == JSONParse(r) IN
         IF ~parsedJson.ok
           THEN [ok |-> FALSE, message |-> ExtractFailedMessage]
           ELSE LET doc == parsedJson.value IN
                [ok |-> TRUE,
                 studentName |-> "",
                 manualRecord |-> [f \in DOMAIN doc \ {"studentName"} |-> doc[f]]]

extractDataFromImageSwallow(r) ==
  LET parsedJson == IF r.kind = "throw" THEN [ok |-> FALSE] ELSE JSONParse(r) IN
  IF ~parsedJson.ok
    THEN [ok |-> TRUE, studentName |-> "OOO", manualRecord |-> EmptyManualRecord]
    ELSE LET doc == parsedJson.value IN
         [ok |-> TRUE,
          studentName |-> doc.studentName,
          manualRecord |-> [f \in DOMAIN doc \ {"studentName"} |-> doc[f]]]

\* extractDataFromImage after its await (geminiService.ts 55-63): the
\* outcome handleFileChange sees for the model's response r.
extractDataFromImage(r) ==
  IF r.kind = "throw"
    THEN [ok |-> FALSE, message |-> ExtractFailedMessage]
    ELSE LET parsedJson == JSONParse(r) IN
         IF ~parsedJson.ok
           THEN [ok |-> FALSE, message |-> ExtractFailedMessage]
           ELSE LET doc == parsedJson.value IN
                [ok |-> TRUE,
                 studentName |-> doc.studentName,
                 manualRecord |-> [f \in DOMAIN doc \ {"studentName"} |-> doc[f]]]

\* --- analysis
Rec(category, university, chance) ==
  [category |-> category, university |-> university, major |-> "cs",
   admissionType |-> "general", acceptanceChance |-> chance,
   rationale |-> "fits"]

\* A response document matching the declared schema.
FullReport ==
  [studentName |-> "Kim",
   recommendedApplicationType |-> "early",
   quantitativeAnalysis |->
     [gpaZScore |-> <<[subject |-> "math", zScore |-> 1]>>,
      gradeTrend |-> <<[semester |-> "1-1", gpa |-> 2]>>,
      mockExamAnalysis |->
        <<[subject |-> "korean", strength |-> TRUE, comment |-> "good"]>>],
   qualitativeAnalysis |->
     [keywordCloud |-> <<[text |-> "robot", value |-> 9]>>,
      competencyRadar |-> <<[subject |-> "academic", score |-> 4, fullMark |-> 5]>>],
   applicationStrategy |->
     [earlyDecisionProbability |-> 60, regularDecisionProbability |-> 40],
   earlyDecisionRecommendations |-> <<Rec("reach", "A", 30), Rec("safe", "B", 80)>>,
   regularDecisionRecommendations |-> <<Rec("match", "C", 55)>>,
   localSupport |->
     [weakSubject |-> "math",
      recommendedAcademies |->
        <<[name |-> "M", distance |-> "1km", rating |-> 4, reviewCount |-> 12]>>,
      recommendedStudySpaces |->
        <<[name |-> "L", type |-> "Library", distance |-> "2km", rating |-> 5]>>]]

\* Valid JSON that lacks required fields of the schema.
PartialReport == [studentName |-> "Kim", recommendedApplicationType |-> "early"]

\* The `required` list of the response schema (top level).
ReportRequired ==
  {"studentName", "recommendedApplicationType", "quantitativeAnalysis",
   "qualitativeAnalysis", "applicationStrategy", "earlyDecisionRecommendations",
   "regularDecisionRecommendations", "localSupport"}

ReportDocs == {FullReport, PartialReport}

\* The JSON text `null`, which JSON.parse turns into null without throwing.
NullDocument == Null

AnalysisResponses ==
  {Thrown} \cup {Text(FALSE, NotJson)} \cup {Text(FALSE, NullDocument)}
           \cup {Text(fence, d) : fence \in BOOLEAN, d \in ReportDocs}

\* A slip of analyzeStudentData: a failed parse yields an empty report
\* instead of an error.
analyzeStudentDataSwallow(r) ==
  IF r.kind = "throw"
    THEN [ok |-> TRUE, value |-> PartialReport]
    ELSE LET parsed == JSONParse(StripFence(r)) IN
         IF parsed.ok THEN [ok |-> TRUE, value |-> parsed.value]
                      ELSE [ok |-> TRUE, value |-> PartialReport]

\* analyzeStudentData after its await (geminiService.ts 331-337): what
\* handleOnboardingComplete sees for the model's response r.
analyzeStudentData(r) ==
  IF r.kind = "throw"
    THEN [ok |-> FALSE, message |-> AnalysisFailedMessage]
    ELSE LET parsed == JSONParse(StripFence(r)) IN
         IF parsed.ok
           THEN [ok |-> TRUE, value |-> parsed.value]
           ELSE [ok |-> FALSE, message |-> AnalysisFailedMessage]

\* formatManualRecord (geminiService.ts 67-76): `x || 'N/A'` per field.
formatManualRecord(record) ==
  [heading |-> "Academic Record (User-Verified Text)",
   fields |-> [f \in ManualFields |-> IF record[f] = "" THEN "N/A" ELSE record[f]]]

\* The pieces of getAnalysisPrompt (geminiService.ts 78-161), one operator
\* per constant of the function.  Texts are kept as their fixed wording
\* together with the values substituted into them.

\* A slip of locationInfo: nothing is said when there is no location.
locationInfoSilent(loc) ==
  IF loc # Null
    THEN [text |-> "The user is located at",
          latitude |-> loc.latitude, longitude |-> loc.longitude]
    ELSE [text |-> ""]

\* locationInfo (geminiService.ts 82-84).
locationInfo(loc) ==
  IF loc # Null
    THEN [text |-> "The user is located at",
          latitude |-> loc.latitude, longitude |-> loc.longitude]
    ELSE [text |-> "The user has not provided their location."]

\* hasManualRecord (geminiService.ts 89).
hasManualRecord(si) ==
  /\ si.manualAcademicRecord # Undefined
  /\ \E f \in DOMAIN si.manualAcademicRecord :
       trim(si.manualAcademicRecord[f]) # ""

\* academicRecordInfo (geminiService.ts 86, 91-109); no control of the
\* interface sets the pasted-text field academicRecord, so its branch
\* (105-106) is never taken.
academicRecordInfo(si) ==
  IF hasManualRecord(si)
    THEN formatManualRecord(si.manualAcademicRecord)
    ELSE IF si.academicRecordImage # Undefined
      THEN [heading |-> "The academic record is provided as an attached image."]
      ELSE [heading |-> "No academic record was provided."]

\* A slip of the image branch: the stored image is attached whenever there
\* is one.
imagePartsWheneverStored(si) ==
  IF si.academicRecordImage # Undefined
    THEN <<[inlineData |-> si.academicRecordImage]>>
    ELSE <<>>

\* The parts pushed before the text is put in front (geminiService.ts 87,
\* 95-104).
imageParts(si) ==
  IF ~hasManualRecord(si) /\ si.academicRecordImage # Undefined
    THEN <<[inlineData |-> si.academicRecordImage]>>
    ELSE <<>>

\* mockExamScoresProvided (geminiService.ts 111).
mockExamScoresProvided(si) ==
  \E f \in DOMAIN si.mockExam : trim(si.mockExam[f]) # ""

SkippedScoresText ==
  "Mock Exam Scores: The user skipped this step. Please estimate the student's academic performance based on the provided academic record."

\* A slip of mockExamInfo: the score line is left out when no score is given.
mockExamInfoOmitted(si) ==
  IF mockExamScoresProvided(si)
    THEN [text |-> "Mock Exam Scores (percentile)", scores |-> si.mockExam]
    ELSE [text |-> ""]

\* mockExamInfo (geminiService.ts 112-114).
mockExamInfo(si) ==
  IF mockExamScoresProvided(si)
    THEN [text |-> "Mock Exam Scores (percentile)", scores |-> si.mockExam]
    ELSE [text |-> SkippedScoresText]

\* studentNameInfo (geminiService.ts 116-118).
studentNameInfo(si) ==
  IF si.studentName # ""
    THEN [text |-> "The student's name is", name |-> si.studentName]
    ELSE [text |-> "Anonymize the student's name."]

\* The fixed task lines of the prompt that speak of missing input
\* (geminiService.ts 139 and 153).
MockExamTask ==
  "Analyze mock exam scores. If scores are not provided, estimate performance based on the academic record."

LocalSupportTask ==
  "Based on the user's location, recommend nearby academies and study spaces. If location is not available, provide general advice."

\* promptText (geminiService.ts 121-156).
promptText(si, loc) ==
  [grade |-> si.grade, desiredField |-> si.desiredField,
   mockExamInfo |-> mockExamInfo(si),
   academicRecordInfo |-> academicRecordInfo(si),
   locationInfo |-> locationInfo(loc),
   studentNameInfo |-> studentNameInfo(si),
   mockExamTask |-> MockExamTask,
   localSupportTask |-> LocalSupportTask]

\* A slip of getAnalysisPrompt: the text is pushed after the image instead of
\* being put in front.
getAnalysisPromptTextLast(si, loc) ==
  [parts |-> imageParts(si) \o <<[text |-> promptText(si, loc)]>>]

\* getAnalysisPrompt (geminiService.ts 78-161): the text is put in front of
\* whatever was pushed (158).
getAnalysisPrompt(si, loc) ==
  [parts |-> <<[text |-> promptText(si, loc)]>> \o imageParts(si)]

\* ---------------------------------------------------------- the report view

\* `x?.f ?? d`: the field when the object has it, else d.
Field(obj, f, d) == IF f \in DOMAIN obj THEN obj[f] ELSE d

\* `x || d` on a text.
OrElse(x, d) == IF x = "" THEN d ELSE x

\* Array.prototype.map, the callback taking the element and its index.
MapIndexed(seq, F(_, _)) == [i \in DOMAIN seq |-> F(seq[i], i - 1)]

\* Number.prototype.toFixed(1) and Math.round on a rating; the ratings of
\* the documents above are whole numbers.
toFixed1(n) == [units |-> n, tenths |-> 0]

MathRound(n) == n

\* pieData (App.tsx 295-298).
pieData(report) ==
  LET strategy == Field(report, "applicationStrategy", [none |-> TRUE]) IN
  <<[name |-> "early", value |-> Field(strategy, "earlyDecisionProbability", 50)],
    [name |-> "regular", value |-> Field(strategy, "regularDecisionProbability", 50)]>>

\* getCategoryColor (App.tsx 301-308); the categories are written "reach",
\* "match" and "safe" here.
getCategoryColor(category) ==
  CASE category = "reach" -> "red"
    [] category = "match" -> "yellow"
    [] category = "safe" -> "green"
    [] OTHER -> "gray"

\* A slip of renderRecommendationCard: the title shows the university only.
renderRecommendationCardNoMajor(rec, index) ==
  [key |-> index,
   color |-> getCategoryColor(rec.category),
   category |-> rec.category,
   title |-> [university |-> rec.university],
   admissionType |-> rec.admissionType,
   acceptanceChance |-> [percent |-> rec.acceptanceChance],
   rationale |-> rec.rationale]

\* renderRecommendationCard (App.tsx 310-325): what one card shows.
renderRecommendationCard(rec, index) ==
  [key |-> index,
   color |-> getCategoryColor(rec.category),
   category |-> rec.category,
   title |-> [university |-> rec.university, major |-> rec.major],
   admissionType |-> rec.admissionType,
   acceptanceChance |-> [percent |-> rec.acceptanceChance],
   rationale |-> rec.rationale]

\* One point of the grade line chart: x from `semester`, y from `gpa`
\* (App.tsx 349-355).
GradePoint(p, i) == [semester |-> p.semester, gpa |-> p.gpa]

\* One axis of the radar chart: the angle axis from `subject`, the radius
\* from `score`, on the fixed domain 0..5 (App.tsx 361-366).
RadarPoint(p, i) == [subject |-> p.subject, score |-> p.score]

\* One word of the keyword cloud: its text, its value only as font size and
\* opacity (App.tsx 372-376), in tenths of a pixel and in hundredths.
KeywordSpan(word, i) ==
  [key |-> i, text |-> word.text,
   fontSize |-> 100 + word.value * 15,
   opacity |-> 60 + word.value * 4]

\* renderDashboard (App.tsx 327-379).
renderDashboard(report) ==
  [summary |->
     [studentName |-> OrElse(Field(report, "studentName", ""), "student"),
      recommendedApplicationType |->
        OrElse(Field(report, "recommendedApplicationType", ""), "analysis result")],
   pie |-> pieData(report),
   gradeTrend |->
     MapIndexed(Field(Field(report, "quantitativeAnalysis", [none |-> TRUE]),
                      "gradeTrend", <<>>), GradePoint),
   radarName |-> OrElse(Field(report, "studentName", ""), "student"),
   competencyRadar |->
     MapIndexed(Field(Field(report, "qualitativeAnalysis", [none |-> TRUE]),
                      "competencyRadar", <<>>), RadarPoint),
   keywordCloud |->
     MapIndexed(Field(Field(report, "qualitativeAnalysis", [none |-> TRUE]),
                      "keywordCloud", <<>>), KeywordSpan)]

\* renderStrategy (App.tsx 381-392).
renderStrategy(report) ==
  [early |-> MapIndexed(Field(report, "earlyDecisionRecommendations", <<>>),
                        renderRecommendationCard),
   regular |-> MapIndexed(Field(report, "regularDecisionRecommendations", <<>>),
                          renderRecommendationCard)]

\* One recommended academy (App.tsx 407-420).
AcademyItem(item, i) ==
  [key |-> i, name |-> item.name, distance |-> item.distance,
   stars |-> MathRound(item.rating), rating |-> toFixed1(item.rating),
   reviewCount |-> item.reviewCount]

\* One recommended study space (App.tsx 427-443).
StudySpaceItem(item, i) ==
  [key |-> i, name |-> item.name, distance |-> item.distance,
   typeLabel |-> IF item.type = "Library" THEN "library" ELSE "study cafe",
   stars |-> MathRound(item.rating), rating |-> toFixed1(item.rating)]

\* renderLocalSupport (App.tsx 394-450).
renderLocalSupport(report) ==
  IF "localSupport" \in DOMAIN report
    THEN [studentName |-> Field(report, "studentName", Undefined),
          weakSubject |-> Field(report.localSupport, "weakSubject", Undefined),
          academies |->
            MapIndexed(Field(report.localSupport, "recommendedAcademies", <<>>),
                       AcademyItem),
          studySpaces |->
            MapIndexed(Field(report.localSupport, "recommendedStudySpaces", <<>>),
                       StudySpaceItem)]
    ELSE [message |-> "local support is not available"]

\* The tabs of the report (App.tsx 452-456).
Tabs == {"dashboard", "strategy", "local"}

\* ReportDashboard (App.tsx 292-484): what is on screen with the given tab
\* active (479-481).
ReportDashboard(report, activeTab) ==
  CASE activeTab = "dashboard" -> renderDashboard(report)
    [] activeTab = "strategy" -> renderStrategy(report)
    [] activeTab = "local" -> renderLocalSupport(report)

\* ---------------------------------------------------------- initial state

\* The useState initial values of Onboarding (App.tsx 42-49); a mounted
\* instance starts here, and an unmounted one is represented by them.
ObReset ==
  /\ obStep' = 1
  /\ info' = InitialInfo
  /\ recordInputType' = "null"
  /\ imagePreview' = "null"
  /\ isExtracting' = FALSE
  /\ fileTask' = "idle"
  /\ extractCall' = Null

Init ==
  /\ appStep = "WELCOME"
  /\ studentInfo = Null
  /\ analysisReport = Null
  /\ location = Null
  /\ error = Null
  /\ obStep = 1
  /\ info = InitialInfo
  /\ recordInputType = "null"
  /\ imagePreview = "null"
  /\ isExtracting = FALSE
  /\ fileTask = "idle"
  /\ extractCall = Null
  /\ analysisCall = Null
  /\ staleReads = 0
  /\ staleExtracts = 0
  /\ staleAnalyses = 0
  /\ geoSupported \in BOOLEAN
  /\ geoPending = 0
  /\ geoStale = 0
  /\ alert = NoAlert

\* Requests to the external model that have been sent and not answered.
OutstandingExtracts == staleExtracts + (IF fileTask = "extracting" THEN 1 ELSE 0)
OutstandingAnalyses == staleAnalyses + (IF analysisCall # Null THEN 1 ELSE 0)
OutstandingRequests == OutstandingExtracts + OutstandingAnalyses

\* The promises of the mounted Onboarding instance, which outlive it.
ReadsInFlight == IF fileTask = "reading" THEN 1 ELSE 0
ExtractsInFlight == IF fileTask = "extracting" THEN 1 ELSE 0

\* Onboarding is rendered only in the ONBOARDING case of renderContent
\* (App.tsx 554-555).
Mounted == appStep = "ONBOARDING"

\* Unmounting Onboarding drops its state; its promises stay in flight.
Unmount ==
  /\ ObReset
  /\ staleReads' = staleReads + ReadsInFlight
  /\ staleExtracts' = staleExtracts + ExtractsInFlight

\* ------------------------------------------------------ Onboarding actions

\* The "start" button of the WELCOME screen (App.tsx 549).
StartOnboarding ==
  /\ appStep = "WELCOME"
  /\ appStep' = "ONBOARDING"
  /\ ObReset
  /\ UNCHANGED <<studentInfo, analysisReport, location, error, flightVars,
                 geoVars, alert>>

\* The input elements renderStep shows (App.tsx 134-241).
FieldRendered(name) ==
  CASE name \in {"grade", "desiredField"} -> obStep = 1
    [] name \in ManualFields ->
         /\ obStep = 2
         /\ ~isExtracting
         /\ recordInputType = "manual"
         /\ info.manualAcademicRecord # Undefined
    [] name \in ExamFields -> obStep = 3
    [] OTHER -> FALSE

\* The edits the session flow (Spec) is explored with: the grade select,
\* the desired field, one text area of the record and one score.  SpecForm
\* below ranges over the whole form content instead.
Grades == {"", "2"}
ChangeInputs ==
  ({"grade"} \X Grades) \cup ({"desiredField"} \X Str)
    \cup ({"awards"} \X Str) \cup ({"korean"} \X {"", "9"})

\* handleChange (App.tsx 54-64).
handleChange(name, value) ==
  /\ Mounted
  /\ FieldRendered(name)
  /\ info' =
       IF name \in DOMAIN info.mockExam
         THEN [info EXCEPT !.mockExam[name] = value]
         ELSE IF /\ info.manualAcademicRecord # Undefined
                 /\ name \in DOMAIN info.manualAcademicRecord
           THEN [info EXCEPT !.manualAcademicRecord[name] = value]
           ELSE [info EXCEPT ![name] = value]
  /\ UNCHANGED <<appVars, obStep, recordInputType, imagePreview, isExtracting,
                 fileTask, extractCall, flightVars, geoVars, alert>>

\* The "upload an image" choice (App.tsx 167).
SelectImage ==
  /\ Mounted /\ obStep = 2 /\ ~isExtracting /\ recordInputType = "null"
  /\ recordInputType' = "image"
  /\ UNCHANGED <<appVars, obStep, info, imagePreview, isExtracting, fileTask,
                 extractCall,
                 flightVars, geoVars, alert>>

\* handleManualSelect (App.tsx 94-97).
handleManualSelect ==
  /\ Mounted /\ obStep = 2 /\ ~isExtracting /\ recordInputType = "null"
  /\ recordInputType' = "manual"
  /\ info' = [info EXCEPT !.manualAcademicRecord = EmptyManualRecord]
  /\ UNCHANGED <<appVars, obStep, imagePreview, isExtracting, fileTask,
                 extractCall,
                 flightVars, geoVars, alert>>

\* The file input is rendered (App.tsx 153, 177-179).
FileInputRendered ==
  Mounted /\ obStep = 2 /\ ~isExtracting /\ recordInputType = "image"

\* handleFileChange up to its first await (App.tsx 66-72); hasFile is
\* e.target.files?.[0] being present.
handleFileChange(hasFile) ==
  /\ FileInputRendered
  /\ IF hasFile
       THEN /\ isExtracting' = TRUE
            /\ recordInputType' = "image"
            /\ imagePreview' = PreviewUrl
            /\ fileTask' = "reading"
       ELSE UNCHANGED <<isExtracting, recordInputType, imagePreview, fileTask>>
  /\ UNCHANGED <<appVars, obStep, info, extractCall, flightVars, geoVars, alert>>

\* fileToBase64 resolves (App.tsx 31-36); handleFileChange stores the image
\* and calls extractDataFromImage, which sends the request (App.tsx 72-77,
\* geminiService.ts 25-37).
FileReadResolved ==
  /\ Mounted /\ fileTask = "reading"
  /\ info' = [info EXCEPT !.academicRecordImage = ImagePayload]
  /\ fileTask' = "extracting"
  /\ extractCall' = [contents |-> extractionContents(ImagePayload)]
  /\ UNCHANGED <<appVars, obStep, recordInputType, imagePreview, isExtracting,
                 flightVars, geoVars, alert>>

\* fileToBase64 rejects (App.tsx 37): the await at line 72 is outside the
\* try, so handleFileChange ends there.
FileReadRejected ==
  /\ Mounted /\ fileTask = "reading"
  /\ fileTask' = "idle"
  /\ UNCHANGED <<appVars, obStep, info, recordInputType, imagePreview,
                 isExtracting, extractCall, flightVars, geoVars, alert>>

\* handleFileChange after extractDataFromImage settles (App.tsx 77-90), for
\* the model's response r.
ExtractionSettled(r) ==
  /\ Mounted /\ fileTask = "extracting"
  /\ LET res == extractDataFromImage(r) IN
     IF res.ok
       THEN /\ info' = [info EXCEPT !.studentName = res.studentName,
                                    !.manualAcademicRecord = res.manualRecord]
            /\ recordInputType' = "manual"
            /\ UNCHANGED alert
       ELSE /\ alert' = res.message
            /\ recordInputType' = "image"
            /\ UNCHANGED info
  /\ isExtracting' = FALSE
  /\ fileTask' = "idle"
  /\ extractCall' = Null
  /\ UNCHANGED <<appVars, obStep, imagePreview, flightVars, geoVars>>

\* The "change image" button (App.tsx 191).
ChangeImage ==
  /\ FileInputRendered /\ imagePreview # "null"
  /\ imagePreview' = "null"
  /\ info' = [info EXCEPT !.academicRecordImage = Undefined]
  /\ UNCHANGED <<appVars, obStep, recordInputType, isExtracting, fileTask,
                 extractCall,
                 flightVars, geoVars, alert>>

\* A slip of the Next button: shown while an extraction is running.
NextButtonRenderedAlways == obStep < 4

\* The Next button is rendered (App.tsx 267).
NextButtonRendered == obStep < 4 /\ ~isExtracting

\* A slip of the Next button: it is never disabled.
NextButtonEnabledAlways == TRUE

\* The Next button is not disabled (App.tsx 270).
NextButtonEnabled == isStepComplete(obStep, info)

\* A click on the Next button (App.tsx 267-275, 51): a disabled button
\* ignores the click.
handleNext ==
  /\ Mounted /\ NextButtonRendered
  /\ obStep' = IF NextButtonEnabled THEN obStep + 1 ELSE obStep
  /\ UNCHANGED <<appVars, info, recordInputType, imagePreview, isExtracting,
                 fileTask, extractCall, flightVars, geoVars, alert>>

\* A slip of the Prev button: it is rendered at step 1 as well.
handlePrevAlways ==
  /\ Mounted
  /\ obStep' = obStep - 1
  /\ UNCHANGED <<appVars, info, recordInputType, imagePreview, isExtracting,
                 fileTask, extractCall, flightVars, geoVars, alert>>

\* handlePrev, behind the Prev button (App.tsx 52, 253-254).
handlePrev ==
  /\ Mounted /\ obStep > 1
  /\ obStep' = obStep - 1
  /\ UNCHANGED <<appVars, info, recordInputType, imagePreview, isExtracting,
                 fileTask, extractCall, flightVars, geoVars, alert>>

\* A slip of handleSkipMockExam: the answer to the dialog is not looked at.
handleSkipMockExamNoConfirm(confirmed) ==
  /\ Mounted /\ obStep = 3
  /\ obStep' = obStep + 1
  /\ UNCHANGED <<appVars, info, recordInputType, imagePreview, isExtracting,
                 fileTask, extractCall, flightVars, geoVars, alert>>

\* handleSkipMockExam, behind the Skip button (App.tsx 99-104, 258-265);
\* confirmed is the answer to window.confirm.
handleSkipMockExam(confirmed) ==
  /\ Mounted /\ obStep = 3
  /\ obStep' = IF confirmed THEN obStep + 1 ELSE obStep
  /\ UNCHANGED <<appVars, info, recordInputType, imagePreview, isExtracting,
                 fileTask, extractCall, flightVars, geoVars, alert>>

\* ------------------------------------------------------------- App actions

\* handleLocationRequest (App.tsx 495-513), behind the consent button of
\* step 4 (App.tsx 234).  The success and error callbacks run later.
handleLocationRequest ==
  /\ Mounted /\ obStep = 4
  /\ IF geoSupported
       THEN /\ geoPending + geoStale < MaxGeoPending
            /\ geoPending' = geoPending + 1
            /\ UNCHANGED alert
       ELSE /\ alert' = LocationUnsupportedNotice
            /\ UNCHANGED geoPending
  /\ UNCHANGED <<appVars, obVars, flightVars, geoSupported, geoStale>>

\* One getCurrentPosition call settles; old says whether it was made before
\* the last reset.
GeoCallDone(old) ==
  IF old
    THEN geoStale > 0 /\ geoStale' = geoStale - 1 /\ UNCHANGED geoPending
    ELSE geoPending > 0 /\ geoPending' = geoPending - 1 /\ UNCHANGED geoStale

\* The success callback (App.tsx 498-504).
GeoSuccess(old) ==
  /\ GeoCallDone(old)
  /\ location' = Position
  /\ alert' = LocationOkNotice
  /\ UNCHANGED <<appStep, studentInfo, analysisReport, error, obVars,
                 flightVars, geoSupported>>

\* A slip of the error callback: it stores a default position.
GeoErrorStoresDefault(old) ==
  /\ GeoCallDone(old)
  /\ location' = Position
  /\ alert' = LocationFailedNotice
  /\ UNCHANGED <<appStep, studentInfo, analysisReport, error, obVars,
                 flightVars, geoSupported>>

\* The error callback (App.tsx 505-508).
GeoError(old) ==
  /\ GeoCallDone(old)
  /\ alert' = LocationFailedNotice
  /\ UNCHANGED <<appVars, obVars, flightVars, geoSupported>>

\* The "start analysis" button is rendered (App.tsx 277).
StartAnalysisRendered == Mounted /\ obStep = 4

\* handleOnboardingComplete up to its await (App.tsx 515-520): the state
\* updates, and analyzeStudentData building and sending the request
\* (geminiService.ts 169-174).  ANALYZING unmounts Onboarding.
handleOnboardingComplete ==
  /\ StartAnalysisRendered
  /\ studentInfo' = info
  /\ appStep' = "ANALYZING"
  /\ error' = Null
  /\ analysisCall' = [contents |-> getAnalysisPrompt(info, location)]
  /\ Unmount
  /\ UNCHANGED <<analysisReport, location, staleAnalyses, geoVars, alert>>

\* handleOnboardingComplete after analyzeStudentData settles (App.tsx
\* 520-528), for the model's response r.  The continuation holds the
\* setters of App, which is never unmounted, so it acts whatever the step is.
AnalysisContinuation(r) ==
  /\ LET res == analyzeStudentData(r) IN
     IF res.ok
       THEN /\ analysisReport' = res.value
            /\ appStep' = "REPORT"
            /\ UNCHANGED error
       ELSE /\ error' = [message |-> res.message]
            /\ appStep' = "ERROR"
            /\ UNCHANGED analysisReport
  /\ IF Mounted
       THEN Unmount
       ELSE UNCHANGED <<obVars, staleReads, staleExtracts>>
  /\ UNCHANGED <<studentInfo, location, geoVars, alert>>

\* The response to this session's analysis request arrives.
AnalysisSettled(r) ==
  /\ analysisCall # Null
  /\ analysisCall' = Null
  /\ UNCHANGED staleAnalyses
  /\ AnalysisContinuation(r)

\* The response to an analysis request from before the last reset arrives.
StaleAnalysisSettled(r) ==
  /\ staleAnalyses > 0
  /\ staleAnalyses' = staleAnalyses - 1
  /\ UNCHANGED analysisCall
  /\ AnalysisContinuation(r)

\* fileToBase64 of an unmounted instance resolves: its setInfo has no
\* effect, and extractDataFromImage sends the request all the same.
StaleFileReadResolved ==
  /\ staleReads > 0
  /\ staleReads' = staleReads - 1
  /\ staleExtracts' = staleExtracts + 1
  /\ UNCHANGED <<appVars, obVars, analysisCall, staleAnalyses, geoVars, alert>>

StaleFileReadRejected ==
  /\ staleReads > 0
  /\ staleReads' = staleReads - 1
  /\ UNCHANGED <<appVars, obVars, analysisCall, staleExtracts, staleAnalyses,
                 geoVars, alert>>

\* The extraction of an unmounted instance settles: its setters have no
\* effect; the alert of the catch branch (App.tsx 86) is still shown.
StaleExtractionSettled(r) ==
  /\ staleExtracts > 0
  /\ staleExtracts' = staleExtracts - 1
  /\ LET res == extractDataFromImage(r) IN
     alert' = IF res.ok THEN alert ELSE res.message
  /\ UNCHANGED <<appVars, obVars, analysisCall, staleReads, staleAnalyses,
                 geoVars>>

\* A restart button is rendered: the header's (App.tsx 587-591) or the
\* ERROR screen's (App.tsx 574-576).
ResetAvailable == appStep # "WELCOME"

\* A slip of reset: the location survives the restart.
resetKeepsLocation ==
  /\ ResetAvailable
  /\ staleReads + staleExtracts + staleAnalyses + ReadsInFlight
       + ExtractsInFlight + (IF analysisCall # Null THEN 1 ELSE 0) <= MaxStale
  /\ appStep' = "WELCOME"
  /\ studentInfo' = Null
  /\ analysisReport' = Null
  /\ error' = Null
  /\ analysisCall' = Null
  /\ staleAnalyses' = staleAnalyses + (IF analysisCall # Null THEN 1 ELSE 0)
  /\ IF Mounted
       THEN Unmount
       ELSE UNCHANGED <<obVars, staleReads, staleExtracts>>
  /\ geoStale' = geoStale + geoPending
  /\ geoPending' = 0
  /\ UNCHANGED <<location, geoSupported, alert>>

\* reset (App.tsx 531-537).  Nothing in flight is cancelled.
reset ==
  /\ ResetAvailable
  /\ staleReads + staleExtracts + staleAnalyses + ReadsInFlight
       + ExtractsInFlight + (IF analysisCall # Null THEN 1 ELSE 0) <= MaxStale
  /\ appStep' = "WELCOME"
  /\ studentInfo' = Null
  /\ analysisReport' = Null
  /\ error' = Null
  /\ location' = Null
  /\ analysisCall' = Null
  /\ staleAnalyses' = staleAnalyses + (IF analysisCall # Null THEN 1 ELSE 0)
  /\ IF Mounted
       THEN Unmount
       ELSE UNCHANGED <<obVars, staleReads, staleExtracts>>
  /\ geoStale' = geoStale + geoPending
  /\ geoPending' = 0
  /\ UNCHANGED <<geoSupported, alert>>

\* ---------------------------------------------------------- specification

Next ==
  \/ StartOnboarding
  \/ \E c \in ChangeInputs : handleChange(c[1], c[2])
  \/ SelectImage
  \/ handleManualSelect
  \/ \E hasFile \in BOOLEAN : handleFileChange(hasFile)
  \/ FileReadResolved
  \/ FileReadRejected
  \/ \E r \in ExtractResponses : ExtractionSettled(r)
  \/ ChangeImage
  \/ handleNext
  \/ handlePrev
  \/ \E confirmed \in BOOLEAN : handleSkipMockExam(confirmed)
  \/ handleLocationRequest
  \/ \E old \in BOOLEAN : GeoSuccess(old)
  \/ \E old \in BOOLEAN : GeoError(old)
  \/ handleOnboardingComplete
  \/ \E r \in AnalysisResponses : AnalysisSettled(r)
  \/ \E r \in AnalysisResponses : StaleAnalysisSettled(r)
  \/ StaleFileReadResolved
  \/ StaleFileReadRejected
  \/ \E r \in ExtractResponses : StaleExtractionSettled(r)
  \/ reset

Spec == Init /\ [][Next]_vars

\* --------------------------------------------- the form, over its contents

\* SpecForm explores one mounted Onboarding instance from every form
\* content of FormContents at every step that content can be met at, with
\* the navigation, upload and start-analysis handlers acting on it.
FormInfo(g, d, record, exam) ==
  [InitialInfo EXCEPT !.grade = g, !.desiredField = d,
                      !.manualAcademicRecord = record, !.mockExam = exam]

AwardsOnlyRecord == [f \in ManualFields |-> IF f = "awards" THEN "a" ELSE ""]

\* Contents that vary one group of fields over all its values: the basic
\* data, the manual record, the mock-exam scores.
FormContents ==
  {FormInfo(g, d, Undefined, InitialInfo.mockExam) : g \in GradesAll, d \in Str}
    \cup {FormInfo("2", "a", record, InitialInfo.mockExam) :
            record \in [ManualFields -> Str]}
    \cup {FormInfo("2", "a", AwardsOnlyRecord, exam) : exam \in [ExamFields -> Str]}

InitForm ==
  /\ appStep = "ONBOARDING"
  /\ studentInfo = Null
  /\ analysisReport = Null
  /\ location = Null
  /\ error = Null
  /\ info \in FormContents
  \* the steps with fields; step 4 is entered from step 3 (Next, Skip)
  /\ obStep \in 1..3
  \* a step is reached only through the steps before it
  /\ obStep >= 2 => info.grade # "" /\ info.desiredField = "a"
  /\ obStep >= 3 => /\ info.manualAcademicRecord # Undefined
                    /\ \E f \in ManualFields : info.manualAcademicRecord[f] = "a"
  /\ recordInputType = IF info.manualAcademicRecord = Undefined THEN "null" ELSE "manual"
  /\ imagePreview = "null"
  /\ isExtracting = FALSE
  /\ fileTask = "idle"
  /\ extractCall = Null
  /\ analysisCall = Null
  /\ staleReads = 0
  /\ staleExtracts = 0
  /\ staleAnalyses = 0
  /\ geoSupported = TRUE
  /\ geoPending = 0
  /\ geoStale = 0
  /\ alert = NoAlert

NextForm ==
  \/ handleNext
  \/ handlePrev
  \/ \E confirmed \in BOOLEAN : handleSkipMockExam(confirmed)
  \/ SelectImage
  \/ handleManualSelect
  \/ \E hasFile \in BOOLEAN : handleFileChange(hasFile)
  \/ FileReadResolved
  \/ FileReadRejected
  \/ \E r \in ExtractResponses : ExtractionSettled(r)
  \/ ChangeImage
  \/ handleOnboardingComplete

SpecForm == InitForm /\ [][NextForm]_vars

\* ------------------------------------- the request builders, over their inputs

\* SpecPrompt applies the two request builders of the gateway to every
\* argument of PromptInputs: getAnalysisPrompt takes any StudentInfo and
\* location, whatever the form lets through, and extractDataFromImage takes
\* the image that was read.
BlankRecord == [f \in ManualFields |-> IF f = "awards" THEN " " ELSE ""]

PromptRecords == {Undefined, EmptyManualRecord, BlankRecord, AwardsOnlyRecord}

PromptExams ==
  {[f \in ExamFields |-> ""],
   [f \in ExamFields |-> IF f = "korean" THEN " " ELSE ""],
   [f \in ExamFields |-> IF f = "korean" THEN "9" ELSE ""],
   [f \in ExamFields |-> "9"]}

PromptInputs ==
  {[grade |-> "2", desiredField |-> "a", studentName |-> name,
    academicRecordImage |-> image, manualAcademicRecord |-> record,
    mockExam |-> exam] :
     name \in {"", "Kim"}, image \in {Undefined, ImagePayload},
     record \in PromptRecords, exam \in PromptExams}

InitPrompt ==
  /\ appStep = "ONBOARDING"
  /\ studentInfo = Null
  /\ analysisReport = Null
  /\ location \in {Null, Position}
  /\ error = Null
  /\ \/ \* the last step, with any argument for getAnalysisPrompt
        /\ obStep = 4
        /\ info \in PromptInputs
        /\ recordInputType =
             IF info.manualAcademicRecord # Undefined THEN "manual"
             ELSE IF info.academicRecordImage # Undefined THEN "image"
             ELSE "null"
        /\ imagePreview = "null"
        /\ isExtracting = FALSE
        /\ fileTask = "idle"
     \/ \* the record step, an uploaded file being read
        /\ obStep = 2
        /\ info = FormInfo("2", "a", Undefined, InitialInfo.mockExam)
        /\ recordInputType = "image"
        /\ imagePreview = PreviewUrl
        /\ isExtracting = TRUE
        /\ fileTask = "reading"
  /\ extractCall = Null
  /\ analysisCall = Null
  /\ staleReads = 0
  /\ staleExtracts = 0
  /\ staleAnalyses = 0
  /\ geoSupported = TRUE
  /\ geoPending = 0
  /\ geoStale = 0
  /\ alert = NoAlert

NextPrompt ==
  \/ handleOnboardingComplete
  \/ FileReadResolved

SpecPrompt == InitPrompt /\ [][NextPrompt]_vars

\* ------------------------------------------------------------------ claims

\* A string with nothing in it, and one with nothing but white space in it.
Empty(x) == x = ""
Blank(x) == x \in {"", " "}

\* The required fields of step s of content i are all filled: a grade is
\* selected and the text fields are `filled`; for the record step, one of
\* the five fields is.
RequiredFilled(s, i, filled(_)) ==
  CASE s = 1 -> i.grade # "" /\ filled(i.desiredField)
    [] s = 2 -> /\ i.manualAcademicRecord # Undefined
                /\ \/ filled(i.manualAcademicRecord["awards"])
                   \/ filled(i.manualAcademicRecord["creativeActivities"])
                   \/ filled(i.manualAcademicRecord["detailedAbilities"])
                   \/ filled(i.manualAcademicRecord["readingActivities"])
                   \/ filled(i.manualAcademicRecord["behavioralCharacteristics"])
    [] s = 3 -> /\ filled(i.mockExam["korean"])
                /\ filled(i.mockExam["math"])
                /\ filled(i.mockExam["english"])
                /\ filled(i.mockExam["inquiry1"])
                /\ filled(i.mockExam["inquiry2"])
    [] OTHER -> FALSE

NotEmpty(x) == ~Empty(x)
NotBlank(x) == ~Blank(x)

\* C1 as stated: at steps 1 to 3, isStepComplete holds iff every required
\* field of the step is a non-empty string (record step: at least one of
\* the five fields is non-empty).
C1_CompleteIffNonEmpty ==
  (Mounted /\ obStep \in 1..3)
    => (isStepComplete(obStep, info) <=> RequiredFilled(obStep, info, NotEmpty))

\* C1 amended: at steps 1 to 3, isStepComplete holds iff every required
\* field of the step holds more than white space (record step: at least one
\* of the five fields does); a field of spaces only counts as not filled in.
C1_CompleteIffNonBlank ==
  (Mounted /\ obStep \in 1..3)
    => (isStepComplete(obStep, info) <=> RequiredFilled(obStep, info, NotBlank))

\* C1 witness: the record step is complete with one field of spaces only
\* next to a filled one.
C1_Witness ==
  /\ Mounted /\ obStep = 2
  /\ info.manualAcademicRecord # Undefined
  /\ info.manualAcademicRecord["awards"] = " "
  /\ info.manualAcademicRecord["readingActivities"] = "a"
  /\ isStepComplete(obStep, info)

\* C2: a click on Next moves the step from n to n+1 exactly when the
\* completion predicate of step n holds and no extraction is in progress,
\* and leaves it unchanged otherwise; and the steps 1 and 2 are left forward
\* (which only Next does) only under that condition.
C2_NextGated ==
  [][ /\ handleNext =>
           obStep' = IF isStepComplete(obStep, info) /\ ~isExtracting
                       THEN obStep + 1 ELSE obStep
      /\ (Mounted /\ appStep' = "ONBOARDING" /\ obStep \in {1, 2}
            /\ obStep' = obStep + 1)
           => (isStepComplete(obStep, info) /\ ~isExtracting) ]_vars

\* C2 witness: step 1 is complete while an extraction is running, so only
\* the running extraction keeps Next from acting.
C2_Witness ==
  Mounted /\ obStep = 1 /\ isExtracting /\ isStepComplete(obStep, info)

\* The analysis call fails: it throws, or its text is not parseable JSON.
AnalysisCallFails(r) ==
  IF r.kind = "throw" THEN TRUE ELSE r.body = NotJson

\* C3: when the analysis call fails, the app is in ERROR with a non-empty
\* error message and a restart button, and the failure sends no further
\* request: the outstanding requests go down by the one that failed.
C3_FailureEndsInError ==
  [][ \A r \in AnalysisResponses :
        ((AnalysisSettled(r) \/ StaleAnalysisSettled(r)) /\ AnalysisCallFails(r))
          => /\ appStep' = "ERROR"
             /\ error' # Null
             /\ error'.message # ""
             /\ ResetAvailable'
             /\ OutstandingRequests' = OutstandingRequests - 1 ]_vars

\* C3 witness: the app is in ERROR with the failure message and nothing
\* is in flight.
C3_Witness ==
  /\ appStep = "ERROR"
  /\ error = [message |-> AnalysisFailedMessage]
  /\ OutstandingRequests = 0

\* The document has the fields the response schema requires.
MatchesReportSchema(doc) == ReportRequired \subseteq DOMAIN doc

\* The response is a JSON document that does not match the schema.
SchemaMismatch(r) ==
  IF r.kind = "throw" \/ r.body = NotJson
    THEN FALSE
    ELSE ~MatchesReportSchema(r.body)

\* C4: a response that does not match the declared report schema ends in
\* ERROR and never in REPORT.
C4_MismatchEndsInError ==
  [][ \A r \in AnalysisResponses :
        ((AnalysisSettled(r) \/ StaleAnalysisSettled(r)) /\ SchemaMismatch(r))
          => appStep' = "ERROR" ]_vars

\* C5: once in ERROR the app stays in ERROR until restart moves it to
\* WELCOME; nothing else, a late model response included, moves it.
C5_ErrorTerminal ==
  [][ appStep = "ERROR" => appStep' \in {"ERROR", "WELCOME"} ]_vars

\* C6: at most one request to the external model is outstanding at any
\* moment.
C6_AtMostOneOutstanding == OutstandingRequests <= 1

\* C7: dispatching the analysis puts the app in ANALYZING, and it leaves
\* ANALYZING only when the response or error of that request arrives, for
\* REPORT or ERROR.
C7_BusyUntilResponse ==
  [][ /\ handleOnboardingComplete => appStep' = "ANALYZING"
      /\ (appStep = "ANALYZING" /\ appStep' # "ANALYZING")
           => /\ analysisCall # Null /\ analysisCall' = Null
              /\ staleAnalyses' = staleAnalyses
              /\ appStep' \in {"REPORT", "ERROR"} ]_vars

\* The extraction succeeds: the text is a JSON document as it stands.
ExtractSucceeds(r) ==
  IF r.kind = "throw" THEN FALSE ELSE ~r.fence /\ r.body # NotJson

\* C8: selecting an image file sets isExtracting; when the extraction
\* succeeds the flow shows the manual record, not extracting, with the five
\* record fields and the student name as extracted.
C8_ExtractionPrefills ==
  [][ /\ handleFileChange(TRUE) => isExtracting'
      /\ \A r \in ExtractResponses :
           (ExtractionSettled(r) /\ ExtractSucceeds(r))
             => /\ recordInputType' = "manual"
                /\ ~isExtracting'
                /\ info'.manualAcademicRecord # Undefined
                /\ \A f \in ManualFields :
                     info'.manualAcademicRecord[f] = r.body[f]
                /\ info'.studentName = r.body["studentName"] ]_vars

\* C8 witness: the manual record is shown, filled from the uploaded image.
C8_Witness ==
  /\ Mounted /\ obStep = 2
  /\ recordInputType = "manual" /\ ~isExtracting
  /\ info.academicRecordImage = ImagePayload
  /\ info.studentName = "Kim"
  /\ info.manualAcademicRecord = [f \in ManualFields |-> "a"]

\* C9: when the extraction fails, the flow is no longer extracting, shows
\* the image upload again, the error is alerted, and the onboarding step
\* is as before.
C9_ExtractionFailureReverts ==
  [][ \A r \in ExtractResponses :
        (ExtractionSettled(r) /\ ~ExtractSucceeds(r))
          => /\ ~isExtracting'
             /\ recordInputType' = "image"
             /\ alert' = ExtractFailedMessage
             /\ obStep' = obStep
             /\ appStep' = appStep ]_vars

\* C9 witness: after a failed extraction the upload view is back, with the
\* image kept and the error alerted.
C9_Witness ==
  /\ Mounted /\ obStep = 2
  /\ recordInputType = "image" /\ ~isExtracting /\ fileTask = "idle"
  /\ info.academicRecordImage = ImagePayload
  /\ info.manualAcademicRecord = Undefined
  /\ alert = ExtractFailedMessage

\* The location sentence of the dispatched analysis request.
RequestLocationInfo(call) == call.contents.parts[1].text.locationInfo

\* C10: when geolocation fails or is unsupported, a notice is alerted, the
\* stored location, the app step and the onboarding step stay as they
\* were, the start-analysis button stays available, and an analysis started
\* with no stored location is requested without location data.
C10_GeolocationFailure ==
  [][ /\ ((\E old \in BOOLEAN : GeoError(old))
            \/ (handleLocationRequest /\ ~geoSupported))
           => /\ alert' \in {LocationFailedNotice, LocationUnsupportedNotice}
              /\ location' = location
              /\ appStep' = appStep
              /\ obStep' = obStep
              /\ StartAnalysisRendered => StartAnalysisRendered'
      /\ (handleOnboardingComplete /\ location = Null)
           => /\ appStep' = "ANALYZING"
              /\ RequestLocationInfo(analysisCall')
                   = [text |-> "The user has not provided their location."]
              /\ Len(analysisCall'.contents.parts) <= 2 ]_vars

\* C10 witness: after a failed location request an analysis is in flight
\* whose request says no location was provided.
C10_Witness ==
  /\ appStep = "ANALYZING"
  /\ alert = LocationFailedNotice
  /\ location = Null
  /\ analysisCall # Null
  /\ RequestLocationInfo(analysisCall)
       = [text |-> "The user has not provided their location."]


\* The text part of a dispatched analysis request.
RequestText(call) == call.contents.parts[1].text

\* C11: when all five mock-exam scores are empty as the analysis request is
\* built, the request text carries the instruction to estimate the student's
\* performance from the academic record in place of a list of scores, and
\* the task of analysing the mock exam is still part of the request.
C11_EmptyScoresAskForEstimate ==
  [][(handleOnboardingComplete /\ \A f \in ExamFields : info.mockExam[f] = "")
       => /\ RequestText(analysisCall').mockExamInfo.text = SkippedScoresText
          /\ "scores" \notin DOMAIN RequestText(analysisCall').mockExamInfo
          /\ RequestText(analysisCall').mockExamTask = MockExamTask]_vars

\* An analysis request built from a form whose scores are all empty.
C11_Witness ==
  /\ appStep = "ANALYZING"
  /\ analysisCall # Null
  /\ \A f \in ExamFields : studentInfo.mockExam[f] = ""
  /\ RequestText(analysisCall).mockExamInfo.text = SkippedScoresText

\* C12: when the user confirms skipping the mock-exam step, the analysis
\* request built from the form as it stands then tells the model that the
\* scores were skipped and must be estimated from the academic record,
\* whatever the score fields hold.  The formula takes the steps from 3 to 4
\* with an incomplete score step: Next is disabled there, so only a confirmed
\* Skip makes them; the score fields cannot be edited at step 4, so the
\* request that follows is built from the content at the moment of skipping.
C12_SkipMeansEstimate ==
  [][(handleSkipMockExam(TRUE) /\ ~isStepComplete(3, info))
       => LET request == getAnalysisPrompt(info', location') IN
          /\ request.parts[1].text.mockExamInfo.text = SkippedScoresText
          /\ "scores" \notin DOMAIN request.parts[1].text.mockExamInfo]_vars

\* C13: when no location has been collected as the analysis starts, building
\* and sending the request does not fail: the start is possible whenever its
\* button is shown, the request states that no location was provided and asks
\* for general advice in place of nearby places, and the application goes to
\* ANALYZING with a request in flight, as it does with a location.
C13_NoLocationStillAnalyses ==
  /\ [](StartAnalysisRendered => ENABLED handleOnboardingComplete)
  /\ [][handleOnboardingComplete
          => /\ appStep' = "ANALYZING"
             /\ analysisCall' # Null
             /\ location = Null
                  => /\ RequestText(analysisCall').locationInfo
                          = [text |-> "The user has not provided their location."]
                     /\ RequestText(analysisCall').localSupportTask
                          = LocalSupportTask]_vars

\* An analysis started without a location, no location request having
\* failed before.
C13_Witness ==
  /\ appStep = "ANALYZING"
  /\ analysisCall # Null
  /\ location = Null
  /\ alert = NoAlert
  /\ "latitude" \notin DOMAIN RequestText(analysisCall).locationInfo

\* The cards show the items of the list, one card per item and in the order
\* of the list, each with the item's six fields as they are.
CardsShow(cards, list) ==
  /\ Len(cards) = Len(list)
  /\ \A i \in 1..Len(list) :
       /\ cards[i].category = list[i].category
       /\ "university" \in DOMAIN cards[i].title
       /\ cards[i].title.university = list[i].university
       /\ "major" \in DOMAIN cards[i].title
       /\ cards[i].title.major = list[i].major
       /\ cards[i].admissionType = list[i].admissionType
       /\ cards[i].acceptanceChance.percent = list[i].acceptanceChance
       /\ cards[i].rationale = list[i].rationale

\* Some tab of the report shows something under the given name.
OnSomeTab(report, name) ==
  \E tab \in Tabs : name \in DOMAIN ReportDashboard(report, tab)

\* C14: for a parsed report matching the declared schema, the report view
\* reproduces every field of it: student name, application type, z-scores,
\* grade trend, mock-exam analysis, keywords, radar scores, probabilities,
\* both recommendation lists and local support.
C14_ViewReproducesReport ==
  (appStep = "REPORT" /\ MatchesReportSchema(analysisReport)) =>
    LET r == analysisReport
        d == ReportDashboard(r, "dashboard")
        s == ReportDashboard(r, "strategy")
        l == ReportDashboard(r, "local")
    IN /\ d.summary.studentName = r.studentName
       /\ d.summary.recommendedApplicationType = r.recommendedApplicationType
       /\ d.gradeTrend = r.quantitativeAnalysis.gradeTrend
       /\ Len(d.keywordCloud) = Len(r.qualitativeAnalysis.keywordCloud)
       /\ \A i \in DOMAIN d.keywordCloud :
            d.keywordCloud[i].text = r.qualitativeAnalysis.keywordCloud[i].text
       /\ Len(d.competencyRadar) = Len(r.qualitativeAnalysis.competencyRadar)
       /\ \A i \in DOMAIN d.competencyRadar :
            /\ d.competencyRadar[i].subject
                 = r.qualitativeAnalysis.competencyRadar[i].subject
            /\ d.competencyRadar[i].score
                 = r.qualitativeAnalysis.competencyRadar[i].score
       /\ d.pie[1].value = r.applicationStrategy.earlyDecisionProbability
       /\ d.pie[2].value = r.applicationStrategy.regularDecisionProbability
       /\ CardsShow(s.early, r.earlyDecisionRecommendations)
       /\ CardsShow(s.regular, r.regularDecisionRecommendations)
       /\ l.weakSubject = r.localSupport.weakSubject
       /\ Len(l.academies) = Len(r.localSupport.recommendedAcademies)
       /\ Len(l.studySpaces) = Len(r.localSupport.recommendedStudySpaces)
       /\ OnSomeTab(r, "gpaZScore")
       /\ OnSomeTab(r, "mockExamAnalysis")

\* C17: the strategy tab renders exactly one card per item of the
\* early-decision list and of the regular-decision list, in the order of the
\* lists, and each card shows the item's category, university, major,
\* admission type, acceptance chance and rationale unmodified.
C17_OneCardPerRecommendation ==
  appStep = "REPORT" =>
    LET view == ReportDashboard(analysisReport, "strategy") IN
    /\ DOMAIN view = {"early", "regular"}
    /\ CardsShow(view.early,
                 Field(analysisReport, "earlyDecisionRecommendations", <<>>))
    /\ CardsShow(view.regular,
                 Field(analysisReport, "regularDecisionRecommendations", <<>>))

\* A report on screen with two early-decision and one regular-decision
\* recommendation, and as many cards.
C17_Witness ==
  /\ appStep = "REPORT"
  /\ MatchesReportSchema(analysisReport)
  /\ Len(analysisReport.earlyDecisionRecommendations) = 2
  /\ analysisReport.earlyDecisionRecommendations[1]
       # analysisReport.earlyDecisionRecommendations[2]
  /\ Len(ReportDashboard(analysisReport, "strategy").early) = 2
  /\ Len(ReportDashboard(analysisReport, "strategy").regular) = 1

IsTextPart(part) == DOMAIN part = {"text"}

IsImagePart(part) == DOMAIN part = {"inlineData"}

\* C15: every request to the external model, the extraction request and the
\* analysis request alike, carries an ordered list of parts whose first part
\* is the instruction text, followed by nothing or by exactly one inline
\* image part, and never more than one image.
C15_TextFirstThenImage ==
  /\ analysisCall # Null =>
       LET parts == analysisCall.contents.parts IN
       /\ Len(parts) \in {1, 2}
       /\ IsTextPart(parts[1])
       /\ Len(parts) = 2 => IsImagePart(parts[2])
  /\ extractCall # Null =>
       LET parts == extractCall.contents.parts IN
       /\ Len(parts) \in {1, 2}
       /\ IsTextPart(parts[1])
       /\ Len(parts) = 2 => IsImagePart(parts[2])

\* C15 as the gateway has it: every request carries exactly one instruction
\* text and at most one inline image; the analysis request is the text
\* followed by nothing or by the image, the extraction request is the image
\* followed by the text.
C15_OneTextAtMostOneImage ==
  /\ analysisCall # Null =>
       LET parts == analysisCall.contents.parts IN
       /\ Len(parts) \in {1, 2}
       /\ IsTextPart(parts[1])
       /\ Len(parts) = 2 => IsImagePart(parts[2])
  /\ extractCall # Null =>
       LET parts == extractCall.contents.parts IN
       /\ Len(parts) = 2
       /\ IsImagePart(parts[1])
       /\ IsTextPart(parts[2])

\* An extraction request in flight, the image in front of the text.
C15_Witness ==
  /\ extractCall # Null
  /\ fileTask = "extracting"
  /\ IsImagePart(extractCall.contents.parts[1])
  /\ extractCall.contents.parts[1].inlineData = info.academicRecordImage

\* The form as a fresh Onboarding shows it: nothing chosen, typed or stored.
EmptyForm(i) ==
  /\ i.grade = "" /\ i.desiredField = "" /\ i.studentName = ""
  /\ i.academicRecordImage = Undefined
  /\ i.manualAcademicRecord = Undefined
  /\ \A f \in ExamFields : i.mockExam[f] = ""

\* C16: nothing outlives a restart.  The restart action, taken in any state
\* other than WELCOME, puts the application in WELCOME with student info,
\* report, error and location cleared, and the onboarding that is started
\* next begins at step 1 with an empty form, no input mode chosen and no
\* extraction in progress.
C16_RestartClearsSession ==
  [][/\ reset => /\ appStep # "WELCOME"
                 /\ appStep' = "WELCOME"
                 /\ studentInfo' = Null
                 /\ analysisReport' = Null
                 /\ error' = Null
                 /\ location' = Null
     /\ StartOnboarding => /\ appStep = "WELCOME"
                           /\ appStep' = "ONBOARDING"
                           /\ obStep' = 1
                           /\ EmptyForm(info')
                           /\ recordInputType' = "null"
                           /\ imagePreview' = "null"
                           /\ ~isExtracting'
                           /\ studentInfo' = Null /\ analysisReport' = Null
                           /\ error' = Null]_vars

\* An onboarding started after a restart that interrupted an analysis: the
\* request of the earlier session is still unanswered, the form is new.
C16_Witness ==
  /\ appStep = "ONBOARDING"
  /\ staleAnalyses > 0
  /\ obStep = 1
  /\ EmptyForm(info)
  /\ studentInfo = Null /\ analysisReport = Null /\ error = Null
  /\ location = Null

\* The manual record exists and at least one of its fields is non-blank.
RecordHasText(i) ==
  /\ i.manualAcademicRecord # Undefined
  /\ \E f \in ManualFields : NotBlank(i.manualAcademicRecord[f])

\* C18: when the manual record holds at least one non-blank field, the
\* analysis request takes the academic record from the manual-record text
\* only and carries no image part, even with an uploaded image stored in the
\* student info; an image part is attached only when the manual record is
\* absent or entirely blank, and it is then the stored image.
C18_ManualRecordReplacesImage ==
  [][handleOnboardingComplete =>
       LET parts == analysisCall'.contents.parts IN
       /\ RecordHasText(info) =>
            /\ Len(parts) = 1
            /\ DOMAIN parts[1].text.academicRecordInfo = {"heading", "fields"}
            /\ parts[1].text.academicRecordInfo.heading
                 = "Academic Record (User-Verified Text)"
            /\ \A f \in ManualFields :
                 parts[1].text.academicRecordInfo.fields[f] =
                   IF info.manualAcademicRecord[f] = ""
                     THEN "N/A" ELSE info.manualAcademicRecord[f]
       /\ Len(parts) > 1 =>
            /\ ~RecordHasText(info)
            /\ Len(parts) = 2
            /\ parts[2] = [inlineData |-> info.academicRecordImage]
            /\ info.academicRecordImage # Undefined]_vars

\* An analysis request without an image part although an image is stored,
\* the manual record holding text.
C18_Witness ==
  /\ analysisCall # Null
  /\ studentInfo # Null
  /\ studentInfo.academicRecordImage = ImagePayload
  /\ RecordHasText(studentInfo)
  /\ Len(analysisCall.contents.parts) = 1

\* C19: the Skip action exists at onboarding step 3 and at no other step;
\* when the user confirms, the step goes from 3 to 4 whether or not the
\* mock-exam scores are complete, and when the user declines, the step and
\* everything collected stay as they are.
C19_SkipOnlyAtStepThree ==
  /\ []((ENABLED handleSkipMockExam(TRUE)) <=> (Mounted /\ obStep = 3))
  /\ []((ENABLED handleSkipMockExam(FALSE)) <=> (Mounted /\ obStep = 3))
  /\ [][/\ handleSkipMockExam(TRUE)
             => /\ obStep = 3 /\ obStep' = 4
                /\ UNCHANGED <<info, recordInputType, imagePreview, isExtracting>>
        /\ handleSkipMockExam(FALSE)
             => /\ obStep = 3 /\ obStep' = 3
                /\ UNCHANGED <<info, recordInputType, imagePreview, isExtracting,
                               appVars>>]_vars

\* Step 4 reached with the score step incomplete, which only a confirmed
\* Skip allows.
C19_Witness ==
  /\ Mounted /\ obStep = 4
  /\ ~isStepComplete(3, info)
  /\ \E f \in ExamFields : info.mockExam[f] # ""

\* The basic data are filled in: a grade is selected and the desired field
\* is non-blank.
BasicsFilled(i) == i.grade # "" /\ NotBlank(i.desiredField)

\* C20: whenever the analysis is started from the onboarding flow, the
\* collected info has a non-empty grade, a non-blank desired field and a
\* manual record with at least one non-blank field, whatever sequence of
\* Next, Prev, Skip, field edits, uploads and extraction results came before;
\* equivalently, at onboarding step 2 and later step 1 is complete, and at
\* step 3 and later step 2 is complete.
C20_StartedAnalysisHasBasics ==
  /\ [](Mounted => /\ obStep >= 2 => BasicsFilled(info) /\ isStepComplete(1, info)
                   /\ obStep >= 3 => RecordHasText(info) /\ isStepComplete(2, info))
  /\ [][handleOnboardingComplete
          => /\ BasicsFilled(studentInfo')
             /\ RecordHasText(studentInfo')
             /\ studentInfo' = info]_vars

\* An analysis started on a record that an extraction filled in, after the
\* upload of an image.
C20_Witness ==
  /\ appStep = "ANALYZING"
  /\ analysisCall # Null
  /\ studentInfo # Null
  /\ studentInfo.academicRecordImage = ImagePayload
  /\ BasicsFilled(studentInfo)
  /\ RecordHasText(studentInfo)

\* The changes of the application step along the flow, and the restart.
StepOrder ==
  {<<"WELCOME", "ONBOARDING">>, <<"ONBOARDING", "ANALYZING">>,
   <<"ANALYZING", "REPORT">>, <<"ANALYZING", "ERROR">>}
    \cup {<<s, "WELCOME">> : s \in {"ONBOARDING", "ANALYZING", "REPORT", "ERROR"}}

\* C21: the application step changes only along WELCOME -> ONBOARDING ->
\* ANALYZING -> REPORT or ERROR, and by a restart to WELCOME; the response
\* or error of an analysis request issued before a restart changes neither
\* the step nor the report nor the error of the application after that
\* restart.
C21_StepOrderAndLateResponses ==
  [][/\ appStep' # appStep => <<appStep, appStep'>> \in StepOrder
     /\ \A r \in AnalysisResponses :
          StaleAnalysisSettled(r) => UNCHANGED <<appStep, analysisReport, error>>]_vars

\* C22: a restart empties the stored location, and the location stays empty
\* until a location request made after that restart succeeds; the result of
\* a request made before the restart does not set the location of the
\* session that follows.
C22_LocationOfThisSessionOnly ==
  [][/\ reset => location' = Null
     /\ GeoSuccess(TRUE) => UNCHANGED location
     /\ (location = Null /\ location' # Null) => geoPending > 0]_vars

\* C23: every upload that enters the extracting busy state leaves it again.
\* isExtracting is set back to false when the extraction succeeds, when the
\* extraction fails and when reading the selected file fails, so that the
\* instance is busy only while its read or its extraction is still under
\* way and the Next button cannot stay hidden for ever.
C23_BusyStateIsLeft ==
  /\ []((Mounted /\ isExtracting) => fileTask \in {"reading", "extracting"})
  /\ [][/\ FileReadRejected => ~isExtracting'
        /\ \A r \in ExtractResponses : ExtractionSettled(r) => ~isExtracting']_vars

\* C24: in every reachable state the application is in REPORT only with an
\* analysis report stored, and in ERROR only with a non-empty error message
\* stored, restarts interleaved with late model responses included.
C24_ReportAndErrorStored ==
  /\ appStep = "REPORT" => analysisReport # Null
  /\ appStep = "ERROR" => error # Null /\ error.message # ""

\* C25: the onboarding step number is always between 1 and 4.  Prev is
\* available at steps 2 to 4 only, Next at steps 1 to 3 only, Skip at step 3
\* only, and the analysis can be started at step 4 only.
C25_StepWithinOneToFour ==
  /\ [](obStep \in 1..4)
  /\ []((ENABLED handlePrev) <=> (Mounted /\ obStep \in 2..4))
  /\ []((ENABLED handleNext) => (Mounted /\ obStep \in 1..3))
  /\ []((ENABLED (\E confirmed \in BOOLEAN : handleSkipMockExam(confirmed)))
          <=> (Mounted /\ obStep = 3))
  /\ []((ENABLED handleOnboardingComplete) <=> (Mounted /\ obStep = 4))
  /\ [][/\ handlePrev => obStep' = obStep - 1 /\ obStep' >= 1
        /\ handleNext => obStep' \in {obStep, obStep + 1} /\ obStep' <= 4]_vars

\* The last step, reached and left again: the instance is back at step 3
\* with the scores incomplete and a location request of step 4 pending,
\* which needs a Skip to step 4 and a Prev.
C25_Witness ==
  /\ Mounted /\ obStep = 3
  /\ ~isStepComplete(3, info)
  /\ geoPending > 0

====
